---- MODULE Spec2Model ----
(***************************************************************************)
(* Model of the hvv_routes integration: the route coordinator              *)
(* (sensor.py), the sensor projection (sensor.py), entry setup and unload  *)
(* (__init__.py), the set_route service (services.py) and the credential   *)
(* validation of the config flow (config_flow.py).                         *)
(*                                                                         *)
(* Python runs these handlers on one event loop: the code between two      *)
(* suspension points is atomic.  The only suspension that lets other       *)
(* handlers run is the network call gti.getRoute; every action below runs  *)
(* a handler from one suspension to the next.                              *)
(***************************************************************************)
EXTENDS Integers, Sequences, FiniteSets, TLC

\* ---------------------------------------------------------------- bounds
MaxTasks == 2     \* handlers that may be suspended at the same time
MaxIds == 2       \* longest entity_id list of one service call

\* ------------------------------------------------------------ the values
None == "None"                       \* Python's None in a string-valued field
Omitted == "<omitted>"               \* a key the caller left out of call.data
Unhashable == "<unhashable>"         \* an entity_id the registry lookup rejects

Entries == {"e1", "e2"}              \* config entry ids
EntityIdOf(e) == "sensor.hvv_route_" \o e

Truthy(s) == s # None /\ s # ""      \* truth value of an Optional[str]

NoPayload ==
  [start |-> [name |-> None, city |-> None, type |-> None],
   dest |-> [name |-> None, city |-> None, type |-> None],
   time |-> [date |-> None, time |-> None],
   timeIsDeparture |-> FALSE, realtime |-> None]

\* journeys as the client returns them: a dict per schedule; hasTime/hasLegs
\* say whether the keys 'time' / 'scheduleElements' are present
Leg(name, direction) == [name |-> name, direction |-> direction]

Journey(hasTime, time, hasLegs, legs) ==
  [plannedDepartureTime |-> "10:00", plannedArrivalTime |-> "10:30",
   hasTime |-> hasTime, time |-> time, hasLegs |-> hasLegs, legs |-> legs]

TwoJourneys ==
  << Journey(TRUE, "12", TRUE, << Leg("S1", "Wedel"), Leg("U3", "Barmbek") >>),
     Journey(TRUE, "25", FALSE, << >>) >>

LeglessJourney == << Journey(FALSE, None, TRUE, << >>) >>

\* the value of coordinator.data before any refresh and after a refresh that
\* returned None
NoData ==
  [kind |-> "None", exc |-> None, query |-> NoPayload,
   hasSchedules |-> FALSE, schedules |-> << >>]

RouteData(payload, hasSchedules, schedules) ==
  [kind |-> "dict", exc |-> None, query |-> payload,
   hasSchedules |-> hasSchedules, schedules |-> schedules]

EmptyDict(payload) ==
  [kind |-> "empty", exc |-> None, query |-> payload,
   hasSchedules |-> FALSE, schedules |-> << >>]

Raises(payload, exc) ==
  [kind |-> "raise", exc |-> exc, query |-> payload,
   hasSchedules |-> FALSE, schedules |-> << >>]

ClientExceptions == {"NetworkError", "AuthError", "KeyError"}

\* what gti.getRoute(payload) can do: raise, return {} or return a dict, with
\* or without 'realtimeSchedules'
Responses(payload) ==
  {Raises(payload, x) : x \in ClientExceptions}
    \cup {EmptyDict(payload),
          RouteData(payload, FALSE, << >>),
          RouteData(payload, TRUE, TwoJourneys),
          RouteData(payload, TRUE, LeglessJourney)}

\* (a test for None alone)
IsNotNone(d) == d.kind # "None"

TruthyData(d) == d.kind = "dict"     \* `not route_data`, `not coordinator.data`

\* ------------------------------------------------------- the coordinator
HVVRoutesDataUpdateCoordinator(auth_data, home_station, home_city) ==
  [username |-> auth_data.username, password |-> auth_data.password,
   home_station |-> home_station, home_city |-> home_city,
   dest_station |-> None, dest_city |-> None, departure_time |-> None,
   data |-> NoData, last_update_success |-> TRUE,
   listeners |-> FALSE, scheduled |-> FALSE]

\* (a check that looks at the station alone)
StationConfigured(co) == Truthy(co.dest_station)

\* all([self._dest_station, self._dest_city])
DestinationConfigured(co) == Truthy(co.dest_station) /\ Truthy(co.dest_city)

\* (a payload that always asks for the current time)
BuildPayloadCurrentTime(co) ==
  [start |-> [name |-> co.home_station, city |-> co.home_city, type |-> "STATION"],
   dest |-> [name |-> co.dest_station, city |-> co.dest_city, type |-> "STATION"],
   time |-> [date |-> "today", time |-> "currenttime"],
   timeIsDeparture |-> TRUE, realtime |-> "REALTIME"]

\* the payload dict of _async_update_data
BuildPayload(co) ==
  [start |-> [name |-> co.home_station, city |-> co.home_city, type |-> "STATION"],
   dest |-> [name |-> co.dest_station, city |-> co.dest_city, type |-> "STATION"],
   time |-> [date |-> "today",
             time |-> IF Truthy(co.departure_time) THEN co.departure_time
                      ELSE "currenttime"],
   timeIsDeparture |-> TRUE, realtime |-> "REALTIME"]

\* (a refresh that hands on whatever the client did)
UpdateResultUnchecked(response) ==
  [failed |-> FALSE, data |-> response, cause |-> None]

\* _async_update_data after gti.getRoute has answered: the value returned, or
\* UpdateFailed with the exception it was raised from
UpdateResult(response) ==
  IF response.kind = "raise"
  THEN [failed |-> TRUE, data |-> NoData, cause |-> response.exc]
  ELSE IF ~TruthyData(response)
  THEN [failed |-> TRUE, data |-> NoData, cause |-> "No route data received"]
  ELSE [failed |-> FALSE, data |-> response, cause |-> None]

\* the end of DataUpdateCoordinator._async_refresh: a returned value replaces
\* data, UpdateFailed leaves data alone and clears last_update_success; the
\* next tick is scheduled when the coordinator has listeners
StoreResult(co, result) ==
  [co EXCEPT !.data = IF result.failed THEN @ ELSE result.data,
             !.last_update_success = ~result.failed,
             !.scheduled = co.listeners]

\* ------------------------------------------------------------ the sensor
\* HVVDynamicRouteSensor.state of a sensor whose coordinator is co
state(co) ==
  IF ~TruthyData(co.data) THEN "No Destination Set"
  ELSE LET schedules == IF co.data.hasSchedules THEN co.data.schedules ELSE << >>
       IN  IF schedules # << >>
           THEN (IF schedules[1].hasTime THEN schedules[1].time ELSE "Unknown")
           ELSE "No Routes Found"

\* schedule.get('scheduleElements', [{}])[0] raises IndexError on an empty list
FirstLegRaises(schedule) == schedule.hasLegs /\ schedule.legs = << >>

FirstLeg(schedule) ==
  IF schedule.hasLegs THEN schedule.legs[1] ELSE Leg(None, None)

Route(schedule) ==
  [departure_time |-> schedule.plannedDepartureTime,
   arrival_time |-> schedule.plannedArrivalTime,
   duration |-> IF schedule.hasTime THEN schedule.time ELSE None,
   line |-> FirstLeg(schedule).name,
   direction |-> FirstLeg(schedule).direction]

ConfigKeys ==
  {"home_station", "home_city", "destination_station", "destination_city",
   "departure_time"}

Attributes(co, keys, routes) ==
  [keys |-> keys,
   home_station |-> co.home_station, home_city |-> co.home_city,
   destination_station |-> co.dest_station, destination_city |-> co.dest_city,
   departure_time |-> co.departure_time, routes |-> routes]

\* the {} the except branch returns
EmptyAttributes ==
  [keys |-> {}, home_station |-> None, home_city |-> None,
   destination_station |-> None, destination_city |-> None,
   departure_time |-> None, routes |-> << >>]

\* HVVDynamicRouteSensor.extra_state_attributes of a sensor whose coordinator
\* is co; keys is the set of keys of the returned dict
extra_state_attributes(co) ==
  IF ~TruthyData(co.data) THEN Attributes(co, ConfigKeys, << >>)
  ELSE LET schedules == IF co.data.hasSchedules THEN co.data.schedules ELSE << >>
       IN  IF \E i \in 1..Len(schedules) : FirstLegRaises(schedules[i])
           THEN EmptyAttributes
           ELSE Attributes(co, ConfigKeys \cup {"routes"},
                           [i \in 1..Len(schedules) |-> Route(schedules[i])])

\* ------------------------------------------------------------- the state
VARIABLES
  coords,        \* the coordinator objects, by object id
  hass_data,     \* hass.data[DOMAIN]['coordinators']: entry id -> object id, 0 absent
  registry,      \* entries whose sensor entity the entity registry knows
  sensors,       \* entry id -> the coordinator its live sensor entity reads, 0 none
  entry_state,   \* entry id -> what the host knows of the entry
  services,      \* whether set_route is registered
  tasks,         \* the running handlers, by slot
  flow           \* the config flow

vars == << coords, hass_data, registry, sensors, entry_state, services, tasks, flow >>

TaskIds == 1..MaxTasks

\* object ids: an entry holds two coordinators, a suspended handler one
CoordIds == 1..(2 * Cardinality(Entries) + MaxTasks)

NullCoordinator ==
  HVVRoutesDataUpdateCoordinator([username |-> None, password |-> None], None, None)

\* an object is alive while the storage, a sensor or a handler refers to it
Referenced(c, hd, sn, tk) ==
  \/ \E e \in Entries : hd[e] = c \/ sn[e] = c
  \/ \E t \in TaskIds : tk[t].coord = c

\* unreferenced objects are gone
Collect(cs, hd, sn, tk) ==
  [c \in CoordIds |-> IF Referenced(c, hd, sn, tk) THEN cs[c] ELSE NullCoordinator]

Least(S) == CHOOSE x \in S : \A y \in S : x <= y

\* where the objects live: the two coordinators of an entry at the entry's
\* own ids, a coordinator that only suspended handlers still hold at one of
\* the ids past them
EntryNo(e) == IF e = "e1" THEN 0 ELSE 1
StoredId(e) == 2 * EntryNo(e) + 1
SensorId(e) == 2 * EntryNo(e) + 2
PrivateIds == {c \in CoordIds : c > 2 * Cardinality(Entries)}

\* the entry lets go of object c: handlers that hold it keep it, elsewhere
Release(m, c) ==
  LET holders == {t \in TaskIds : m.tasks[t].coord = c}
      p == Least({q \in PrivateIds : \A t \in TaskIds : m.tasks[t].coord # q})
  IN  IF c = 0 \/ holders = {} THEN m
      ELSE [coords |-> [m.coords EXCEPT ![p] = m.coords[c], ![c] = NullCoordinator],
            tasks |-> [t \in TaskIds |->
                         IF t \in holders
                         THEN [m.tasks[t] EXCEPT !.coord = p, !.cur.coord = p]
                         ELSE m.tasks[t]]]

\* ---------------------------------------- what a handler has done (history)
\* answer/raised: what the client did; cause: what UpdateFailed was raised from
Event(name, co, client_call, result) ==
  [name |-> name, dest_station |-> co.dest_station, dest_city |-> co.dest_city,
   client_call |-> client_call, result |-> result,
   answer |-> "none", raised |-> None, cause |-> None]

\* the fields a call must not touch unless it is there to set them
Config(co) ==
  [username |-> co.username, password |-> co.password,
   home_station |-> co.home_station, home_city |-> co.home_city,
   dest_station |-> co.dest_station, dest_city |-> co.dest_city]

\* a coordinator as a call on it returns
Returned(co, refresh) ==
  [config |-> Config(co), departure_time |-> co.departure_time, data |-> co.data,
   last_update_success |-> co.last_update_success, state |-> state(co),
   refresh |-> refresh]

NoReturn == Returned(NullCoordinator, "none")

\* the history of one iteration of the loop over entity_ids
NoCur ==
  [id |-> None, resolvable |-> FALSE, outcome |-> "pending", coord |-> 0,
   events |-> << >>,
   prior |-> NoData,                    \* data as set_destination was called
   sd |-> NoReturn,                     \* as set_destination returned
   before |-> Config(NullCoordinator),  \* as set_departure_time was called
   st |-> NoReturn,                     \* as set_departure_time returned
   subscribed |-> 0, shown |-> EmptyAttributes]

IdleTask ==
  [kind |-> "idle", pc |-> "idle", ids |-> << >>, i |-> 1,
   station |-> None, city |-> None, time |-> None,
   op |-> "none", coord |-> 0, payload |-> NoPayload,
   raised |-> FALSE, cur |-> NoCur, log |-> << >>]

\* ----------------------------------- DataUpdateCoordinator._async_refresh
\* from its start to the first suspension: the pending tick is cancelled and
\* _async_update_data runs; without a destination it returns None at once,
\* otherwise it builds the payload and suspends in gti.getRoute
RefreshBegin(co) ==
  LET co1 == [co EXCEPT !.scheduled = FALSE]
  IN  IF ~DestinationConfigured(co1)
      THEN [blocked |-> FALSE, payload |-> NoPayload,
            co |-> StoreResult(co1, [failed |-> FALSE, data |-> NoData, cause |-> None])]
      ELSE [blocked |-> TRUE, payload |-> BuildPayload(co1), co |-> co1]

RefreshName(result) == IF result.failed THEN "UpdateFailed" ELSE "data"

\* ------------------------------------------------ services.handle_set_route
\* call.data.get('departure_time', 'currenttime')
DepartureTimeParam(time) == IF time = Omitted THEN "currenttime" ELSE time

\* entity_registry.async_get(entity_id): the entry of a known entity, None
RegistryLookup(id) ==
  IF \E e \in registry : EntityIdOf(e) = id
  THEN CHOOSE e \in registry : EntityIdOf(e) = id
  ELSE None

\* hass.data.get(DOMAIN, {}).get('coordinators', {}).get(config_entry_id)
StoredCoordinator(e) == IF e \in Entries THEN hass_data[e] ELSE 0

\* the identifier names a registered entity whose entry has a stored coordinator
Resolves(id) ==
  /\ id # Unhashable
  /\ RegistryLookup(id) # None
  /\ StoredCoordinator(RegistryLookup(id)) # 0

SensorOf(id) == IF RegistryLookup(id) = None THEN 0 ELSE sensors[RegistryLookup(id)]

RECURSIVE handle_set_route(_, _)

\* the end of one iteration: its history is kept and the loop goes on
NextIdentifier(cs, tk, outcome) ==
  LET s == SensorOf(tk.cur.id)
      done == [tk.cur EXCEPT !.outcome = outcome, !.subscribed = s,
                             !.shown = IF s = 0 THEN EmptyAttributes
                                       ELSE extra_state_attributes(cs[s])]
  IN  [tk EXCEPT !.i = @ + 1, !.log = Append(@, done), !.cur = NoCur,
                 !.op = "none", !.coord = 0, !.payload = NoPayload]

\* (a loop that gives up at the first identifier it cannot serve)
AbortLoop(cs, tk, why) ==
  [coords |-> cs,
   task |-> [NextIdentifier(cs, tk, why) EXCEPT !.pc = "done", !.raised = why = "error"]]

\* `continue` after a warning, and the except clause of the loop body
SkipIdentifier(cs, tk, why) == handle_set_route(cs, NextIdentifier(cs, tk, why))

set_departure_time_returned(cs, tk, refresh) ==
  LET tk1 == [tk EXCEPT !.cur.st = Returned(cs[tk.coord], refresh)]
  IN  handle_set_route(cs, NextIdentifier(cs, tk1, "applied"))

\* (an assignment that also forgets the destination)
AssignTimeDropDestination(co, time) ==
  [co EXCEPT !.departure_time = time, !.dest_station = None, !.dest_city = None]

\* self._departure_time = time
AssignDepartureTime(co, time) == [co EXCEPT !.departure_time = time]

\* HVVRoutesDataUpdateCoordinator.set_departure_time up to its suspension
set_departure_time(cs, tk, time) ==
  LET c == tk.coord
      co1 == AssignDepartureTime(cs[c], time)
      r == RefreshBegin(co1)
      cs1 == [cs EXCEPT ![c] = r.co]
      tk1 == [tk EXCEPT !.op = "set_departure_time",
                !.cur.before = Config(cs[c]),
                !.cur.events = @ \o
                   << Event("set_departure_time", co1, FALSE, "none"),
                      Event("_async_update_data", co1, r.blocked,
                            IF r.blocked THEN "pending" ELSE "None") >>]
  IN  IF r.blocked
      THEN [coords |-> cs1, task |-> [tk1 EXCEPT !.pc = "getRoute", !.payload = r.payload]]
      ELSE set_departure_time_returned(cs1, tk1, "None")

\* after `await coordinator.set_destination(...)`: `if departure_time:`
set_destination_returned(cs, tk, refresh) ==
  LET tk1 == [tk EXCEPT !.cur.sd = Returned(cs[tk.coord], refresh)]
      departure_time == DepartureTimeParam(tk.time)
  IN  IF Truthy(departure_time)
      THEN set_departure_time(cs, tk1, departure_time)
      ELSE handle_set_route(cs, NextIdentifier(cs, tk1, "applied"))

\* self._dest_station = station; self._dest_city = city
AssignDestination(co, station, city) ==
  [co EXCEPT !.dest_station = station, !.dest_city = city]

\* HVVRoutesDataUpdateCoordinator.set_destination up to its suspension
set_destination(cs, tk, c, station, city) ==
  LET co1 == AssignDestination(cs[c], station, city)
      r == RefreshBegin(co1)
      cs1 == [cs EXCEPT ![c] = r.co]
      tk1 == [tk EXCEPT !.op = "set_destination", !.coord = c,
                !.cur.coord = c, !.cur.prior = cs[c].data,
                !.cur.events = @ \o
                   << Event("set_destination", co1, FALSE, "none"),
                      Event("_async_update_data", co1, r.blocked,
                            IF r.blocked THEN "pending" ELSE "None") >>]
  IN  IF r.blocked
      THEN [coords |-> cs1, task |-> [tk1 EXCEPT !.pc = "getRoute", !.payload = r.payload]]
      ELSE set_destination_returned(cs1, tk1, "None")

\* the loop over entity_ids from position tk.i, up to the next suspension
handle_set_route(cs, tk) ==
  IF tk.i > Len(tk.ids)
  THEN [coords |-> cs, task |-> [tk EXCEPT !.pc = "done"]]
  ELSE LET id == tk.ids[tk.i]
           tk1 == [tk EXCEPT !.cur = [NoCur EXCEPT !.id = id, !.resolvable = Resolves(id)]]
       IN  IF id = Unhashable THEN SkipIdentifier(cs, tk1, "error")
           ELSE IF RegistryLookup(id) = None THEN SkipIdentifier(cs, tk1, "no_entity")
           ELSE IF StoredCoordinator(RegistryLookup(id)) = 0
                THEN SkipIdentifier(cs, tk1, "no_coordinator")
           ELSE set_destination(cs, tk1, StoredCoordinator(RegistryLookup(id)),
                                tk.station, tk.city)

\* a handler suspended in gti.getRoute gets its answer and runs on
Resume(cs, tk, response) ==
  LET result == UpdateResult(response)
      c == tk.coord
      cs1 == [cs EXCEPT ![c] = StoreResult(@, result)]
      tk1 == [tk EXCEPT !.pc = "running", !.payload = NoPayload,
                !.cur.events = Append(@,
                   [Event("getRoute", cs[c], TRUE, RefreshName(result))
                      EXCEPT !.answer = response.kind, !.raised = response.exc,
                             !.cause = result.cause])]
  IN  IF tk.op = "set_destination" THEN set_destination_returned(cs1, tk1, RefreshName(result))
      ELSE IF tk.op = "set_departure_time"
           THEN set_departure_time_returned(cs1, tk1, RefreshName(result))
      ELSE [coords |-> cs1, task |-> IdleTask]

\* ------------------------------------------------------ config_flow.py
\* the names config_flow.py binds at module level (imports, classes)
ModuleNames ==
  {"logging", "Any", "Dict", "Optional", "vol", "aiohttp", "Auth", "GTI",
   "config_entries", "CONF_USERNAME", "CONF_PASSWORD", "HomeAssistant",
   "FlowResult", "async_get_clientsession", "DOMAIN", "_LOGGER",
   "HVVConfigFlow", "HVVOptionsFlow", "CannotConnect", "InvalidAuth"}

NameIsBound(name) == name \in ModuleNames

\* what the probe gti.init() can do
Probes == {"ok", "AuthenticationError", "NetworkError", "TimeoutError"}

\* the inner try of validate_auth: an exception of the probe is matched
\* against the except clauses in order, and evaluating the class name of a
\* clause raises NameError when the module does not bind it
ProbeHandler(probe) ==
  IF probe = "ok" THEN "ok"
  ELSE IF ~NameIsBound("AuthenticationError") THEN "NameError"
  ELSE IF probe = "AuthenticationError" THEN "InvalidAuth"
  ELSE IF ~NameIsBound("NetworkError") THEN "NameError"
  ELSE IF probe = "NetworkError" THEN "CannotConnect"
  ELSE probe

\* HVVConfigFlow.validate_auth: "ok" when it returns, else the exception it
\* raises; the outer `except Exception` turns whatever leaves the inner try
\* into InvalidAuth
validate_auth(probe) ==
  IF ProbeHandler(probe) = "ok" THEN "ok" ELSE "InvalidAuth"

\* the except clauses of async_step_user: errors["base"]
UserStepError(raised) ==
  IF raised = "InvalidAuth" THEN "invalid_auth"
  ELSE IF raised = "CannotConnect" THEN "cannot_connect"
  ELSE "unknown"

Usernames == {"", "alice", "bob", "carol"}
Passwords == {"", "pw1", "pw2"}
HomeStations == {"Hauptbahnhof", "Dammtor", ""}
HomeCities == {"Hamburg", ""}

NoAuth == [username |-> None, password |-> None]

NoEntry ==
  [username |-> None, password |-> None, home_station |-> None, home_city |-> None]

\* the options flow of the created entry: the step it shows, whether the
\* form carries an errors["base"] and its text, the exception a step let
\* escape, the data of the result it created, the last user_input and probe
InitOptions ==
  [step |-> "none", has_error |-> FALSE, error |-> "", raised |-> None,
   data |-> NoEntry, input |-> NoEntry, probe |-> "none"]

InitFlow ==
  [step |-> "none", errors |-> "", auth_data |-> NoAuth, entry |-> NoEntry,
   input |-> NoAuth, probe |-> "none",    \* the last user_input and probe
   options |-> InitOptions]

\* async_step_user(None): the form, no errors
FlowStart ==
  /\ flow.step = "none"
  /\ flow' = [flow EXCEPT !.step = "user"]
  /\ UNCHANGED << coords, hass_data, registry, sensors, entry_state, services, tasks >>

\* async_step_user(user_input)
async_step_user(username, password, probe) ==
  /\ flow.step = "user"
  /\ LET r == validate_auth(probe)
     IN  flow' = IF r = "ok"
                 THEN [flow EXCEPT !.step = "home_location", !.errors = "",
                         !.probe = probe,
                         !.input = [username |-> username, password |-> password],
                         !.auth_data = [username |-> username, password |-> password]]
                 ELSE [flow EXCEPT !.errors = UserStepError(r), !.probe = probe,
                         !.input = [username |-> username, password |-> password]]
  /\ UNCHANGED << coords, hass_data, registry, sensors, entry_state, services, tasks >>

\* async_step_home_location(user_input): the entry is created
async_step_home_location(home_station, home_city) ==
  /\ flow.step = "home_location"
  /\ flow' = [flow EXCEPT !.step = "created",
                !.entry = [username |-> flow.auth_data.username,
                           password |-> flow.auth_data.password,
                           home_station |-> home_station, home_city |-> home_city]]
  /\ UNCHANGED << coords, hass_data, registry, sensors, entry_state, services, tasks >>

\* ---- HVVOptionsFlow
\* def validate_auth(self, username, password)
ValidateAuthParameters == << "self", "username", "password" >>

\* HVVConfigFlow.validate_auth(user_input[CONF_USERNAME], user_input[CONF_PASSWORD]):
\* the function is taken from the class, so nothing is bound to self
OptionsCallArguments == << "username", "password" >>

\* calling a function with positional arguments: every parameter needs one
CallFunction(parameters, arguments) ==
  IF Len(arguments) = Len(parameters) THEN "called" ELSE "TypeError"

\* the try body of async_step_init up to the result of the await: "ok" or
\* the exception raised
OptionsValidate(probe) ==
  IF CallFunction(ValidateAuthParameters, OptionsCallArguments) = "TypeError"
  THEN "TypeError"
  ELSE validate_auth(probe)

\* except (CannotConnect, InvalidAuth) as e
OptionsCatches(raised) == raised \in {"CannotConnect", "InvalidAuth"}

\* str(e) of an exception raised without arguments
OptionsErrorText(raised) == ""

\* async_step_init(None): the form, no errors
OptionsStart ==
  /\ flow.step = "created"
  /\ flow.options.step = "none"
  /\ flow' = [flow EXCEPT !.options.step = "init"]
  /\ UNCHANGED << coords, hass_data, registry, sensors, entry_state, services, tasks >>

\* async_step_init(user_input): an exception the except clause does not name
\* leaves the step; the flow stays where it was
async_step_init(user_input, probe) ==
  /\ flow.step = "created"
  /\ flow.options.step = "init"
  /\ LET r == OptionsValidate(probe)
         o == [flow.options EXCEPT !.input = user_input, !.probe = probe]
     IN  flow' = [flow EXCEPT !.options =
                    IF r = "ok"
                    THEN [o EXCEPT !.step = "created", !.data = user_input,
                                   !.has_error = FALSE, !.error = "", !.raised = None]
                    ELSE IF OptionsCatches(r)
                    THEN [o EXCEPT !.has_error = TRUE, !.error = OptionsErrorText(r),
                                   !.raised = None]
                    ELSE [o EXCEPT !.raised = r]]
  /\ UNCHANGED << coords, hass_data, registry, sensors, entry_state, services, tasks >>

\* a handler that has run off its end returns to the host before anything
\* else runs
Returning == \E t \in TaskIds : tasks[t].pc = "done"

\* ------------------------------------------------------------ __init__.py
\* entry.data of the entries the host sets up
EntryData ==
  {[username |-> "alice", password |-> "pw1",
    home_station |-> h, home_city |-> "Hamburg"] : h \in {"Hauptbahnhof", ""}}

\* all([username, password, home_station, home_city])
ConfigurationComplete(data) ==
  /\ Truthy(data.username) /\ Truthy(data.password)
  /\ Truthy(data.home_station) /\ Truthy(data.home_city)

\* async_config_entry_first_refresh raises ConfigEntryNotReady unless the
\* refresh succeeded
FirstRefreshFails(r) == ~r.co.last_update_success

\* (a store that keys every coordinator by the first entry)
StoreUnderFirstEntry(hd, e, id) == [hd EXCEPT !["e1"] = id]

\* hass.data[DOMAIN].setdefault('coordinators', {})[entry.entry_id] = coordinator
StoreCoordinator(hd, e, id) == [hd EXCEPT ![e] = id]

\* async_setup_entry of __init__.py, with the sensor platform it forwards to
\* (async_setup_entry of sensor.py) and register_services.  A coordinator
\* fresh from the constructor has no destination, so neither first refresh
\* suspends.
async_setup_entry(e, data) ==
  /\ ~Returning
  /\ entry_state[e] \in {"not_loaded", "setup_error", "setup_retry"}
  /\ IF ~ConfigurationComplete(data)
     THEN /\ entry_state' = [entry_state EXCEPT ![e] = "setup_error"]
          /\ UNCHANGED << coords, hass_data, registry, sensors, services >>
     ELSE LET coordinator == HVVRoutesDataUpdateCoordinator(
                               [username |-> data.username, password |-> data.password],
                               data.home_station, data.home_city)
              r == RefreshBegin(coordinator)
              id == StoredId(e)
              \* sensor.py: a second coordinator, for the sensor
              r2 == RefreshBegin(coordinator)
              id2 == SensorId(e)
          IN  /\ ~r.blocked /\ ~r2.blocked
              /\ IF FirstRefreshFails(r)
                 THEN /\ entry_state' = [entry_state EXCEPT ![e] = "setup_retry"]
                      /\ UNCHANGED << coords, hass_data, registry, sensors, services >>
                 ELSE /\ hass_data' = StoreCoordinator(hass_data, e, id)
                      /\ IF FirstRefreshFails(r2)
                         THEN UNCHANGED << registry, sensors >>
                         ELSE \* async_add_entities: the sensor listens to its
                              \* coordinator, which schedules the first tick
                              /\ registry' = registry \cup {e}
                              /\ sensors' = [sensors EXCEPT ![e] = id2]
                      /\ coords' = Collect(
                            [coords EXCEPT ![id] = r.co,
                                           ![id2] = [r2.co EXCEPT !.listeners = TRUE,
                                                                  !.scheduled = TRUE]],
                            hass_data', sensors', tasks)
                      /\ services' = TRUE
                      /\ entry_state' = [entry_state EXCEPT ![e] = "loaded"]
  /\ UNCHANGED << tasks, flow >>

\* (a teardown that clears the whole storage)
PopAllCoordinators(hd, e) == [f \in Entries |-> 0]

\* hass.data[DOMAIN]['coordinators'].pop(entry.entry_id, None); popping DOMAIN
\* itself when that leaves no coordinator changes no lookup
PopCoordinator(hd, e) == [hd EXCEPT ![e] = 0]

\* async_unload_entry: unload_ok is what async_unload_platforms returns; the
\* platform's sensor entity is removed, its registry entry stays
async_unload_entry(e, unload_ok) ==
  /\ ~Returning
  /\ entry_state[e] = "loaded"
  /\ IF unload_ok
     THEN LET m == Release(Release([coords |-> coords, tasks |-> tasks], hass_data[e]),
                           sensors[e])
          IN  /\ hass_data' = PopCoordinator(hass_data, e)
              /\ sensors' = [sensors EXCEPT ![e] = 0]
              /\ tasks' = m.tasks
              /\ coords' = Collect(m.coords, hass_data', sensors', tasks')
              /\ entry_state' = [entry_state EXCEPT ![e] = "not_loaded"]
     ELSE /\ entry_state' = [entry_state EXCEPT ![e] = "failed_unload"]
          /\ UNCHANGED << hass_data, sensors, coords, tasks >>
  /\ UNCHANGED << registry, services, flow >>

\* ------------------------------------------------------------ the actions
\* call.data of a set_route call
Destinations ==
  {[station |-> "Altona", city |-> "Hamburg"], [station |-> "Dammtor", city |-> "Hamburg"],
   [station |-> "", city |-> "Hamburg"], [station |-> "Altona", city |-> None]}
Times == {Omitted, "", "08:30"}
EntityIds == {EntityIdOf(e) : e \in Entries} \cup {Unhashable}

RECURSIVE SeqsUpTo(_, _)
SeqsUpTo(S, n) ==
  IF n = 0 THEN {<< >>}
  ELSE LET shorter == SeqsUpTo(S, n - 1)
       IN  shorter \cup {Append(q, x) : q \in shorter, x \in S}

\* entity_id is one string or a list of them
RawEntityIds(ids, n) ==
  {[isStr |-> FALSE, ids |-> q] : q \in SeqsUpTo(ids, n)}
    \cup {[isStr |-> TRUE, ids |-> << x >>] : x \in ids}

\* `if isinstance(entity_ids, str): entity_ids = [entity_ids]`
NormalizeEntityIds(raw) == raw.ids

IdleSlots == {t \in TaskIds : tasks[t].kind = "idle"}

\* no handler is suspended or about to return
Quiet == IdleSlots = TaskIds

\* hass calls handle_set_route, which runs to its first suspension
ServiceCall(raw, station, city, time) ==
  /\ ~Returning
  /\ services
  /\ IdleSlots # {}
  /\ LET m == handle_set_route(coords,
                [IdleTask EXCEPT !.kind = "service", !.pc = "running",
                                 !.ids = NormalizeEntityIds(raw),
                                 !.station = station, !.city = city, !.time = time])
     IN  /\ tasks' = [tasks EXCEPT ![Least(IdleSlots)] = m.task]
         /\ coords' = Collect(m.coords, hass_data, sensors, tasks')
  /\ UNCHANGED << hass_data, registry, sensors, entry_state, services, flow >>

\* gti.getRoute answers a suspended handler, which runs to its next suspension
ClientResponds(t, response) ==
  /\ ~Returning
  /\ tasks[t].pc = "getRoute"
  /\ LET m == Resume(coords, tasks[t], response)
     IN  /\ tasks' = [tasks EXCEPT ![t] = m.task]
         /\ coords' = Collect(m.coords, hass_data, sensors, tasks')
  /\ UNCHANGED << hass_data, registry, sensors, entry_state, services, flow >>

\* handle_set_route has returned to the host
ServiceReturns(t) ==
  /\ tasks[t].pc = "done"
  /\ tasks' = [tasks EXCEPT ![t] = IdleTask]
  /\ UNCHANGED << coords, hass_data, registry, sensors, entry_state, services, flow >>

\* the update interval of a coordinator with listeners elapses
TimerTick(c) ==
  /\ ~Returning
  /\ coords[c].scheduled
  /\ LET r == RefreshBegin(coords[c])
     IN  /\ coords' = [coords EXCEPT ![c] = r.co]
         /\ IF r.blocked
            THEN /\ IdleSlots # {}
                 /\ tasks' = [tasks EXCEPT ![Least(IdleSlots)] =
                       [IdleTask EXCEPT !.kind = "timer", !.pc = "getRoute", !.op = "timer",
                                        !.coord = c, !.payload = r.payload]]
            ELSE UNCHANGED tasks
  /\ UNCHANGED << hass_data, registry, sensors, entry_state, services, flow >>

Init ==
  /\ coords = [c \in CoordIds |-> NullCoordinator]
  /\ hass_data = [e \in Entries |-> 0]
  /\ registry = {}
  /\ sensors = [e \in Entries |-> 0]
  /\ entry_state = [e \in Entries |-> "not_loaded"]
  /\ services = FALSE
  /\ tasks = [t \in TaskIds |-> IdleTask]
  /\ flow = InitFlow

\* ---- one entry, one call at a time, every destination, time and answer
Setup == \E data \in EntryData : async_setup_entry("e1", data)
Unload == \E ok \in BOOLEAN : async_unload_entry("e1", ok)
SetRoute ==
  /\ Quiet
  /\ \E raw \in RawEntityIds({EntityIdOf("e1")}, 1), d \in Destinations, t \in Times :
       ServiceCall(raw, d.station, d.city, t)
Answer == \E t \in TaskIds : \E r \in Responses(tasks[t].payload) : ClientResponds(t, r)
Return == \E t \in TaskIds : ServiceReturns(t)
Tick == \E c \in CoordIds : TimerTick(c)

Next == Setup \/ Unload \/ SetRoute \/ Answer \/ Return \/ Tick

Spec == Init /\ [][Next]_vars

\* ---- both entries, lists of identifiers, one destination
DispatchResponses(payload) ==
  {RouteData(payload, TRUE, TwoJourneys), Raises(payload, "NetworkError")}

DispatchTimes == {""}

SetupAny == \E e \in Entries, data \in EntryData : async_setup_entry(e, data)
UnloadAny == \E e \in Entries, ok \in BOOLEAN : async_unload_entry(e, ok)
SetRouteList ==
  /\ Quiet
  /\ \E raw \in RawEntityIds(EntityIds, MaxIds), t \in DispatchTimes :
       ServiceCall(raw, "Altona", "Hamburg", t)
AnswerDispatch ==
  \E t \in TaskIds : \E r \in DispatchResponses(tasks[t].payload) : ClientResponds(t, r)

NextDispatch == SetupAny \/ UnloadAny \/ SetRouteList \/ AnswerDispatch \/ Return \/ Tick

SpecDispatch == Init /\ [][NextDispatch]_vars

\* ---- one entry, set_route calls that overlap: a call may arrive while
\* another is suspended in gti.getRoute
OverlapDestinations ==
  {[station |-> "Altona", city |-> "Hamburg"], [station |-> "Dammtor", city |-> "Hamburg"]}

OverlapTimes == {"", "08:30"}

OverlapResponses(payload) ==
  {RouteData(payload, TRUE, TwoJourneys), Raises(payload, "NetworkError")}

SetRouteOverlap ==
  \E d \in OverlapDestinations, t \in OverlapTimes :
    ServiceCall([isStr |-> TRUE, ids |-> << EntityIdOf("e1") >>], d.station, d.city, t)

AnswerOverlap ==
  \E t \in TaskIds : \E r \in OverlapResponses(tasks[t].payload) : ClientResponds(t, r)

NextOverlap == Setup \/ SetRouteOverlap \/ AnswerOverlap \/ Return

SpecOverlap == Init /\ [][NextOverlap]_vars

\* ---- the config flow
FlowUser ==
  \E u \in Usernames, p \in Passwords, probe \in Probes : async_step_user(u, p, probe)
FlowHome ==
  \E h \in HomeStations, c \in HomeCities : async_step_home_location(h, c)

OptionsUser ==
  \E u \in {"alice", "bob"}, p \in {"pw1", "pw2"}, probe \in Probes :
    async_step_init([username |-> u, password |-> p,
                     home_station |-> flow.entry.home_station,
                     home_city |-> flow.entry.home_city], probe)

NextFlow == FlowStart \/ FlowUser \/ FlowHome \/ OptionsStart \/ OptionsUser

SpecFlow == Init /\ [][NextFlow]_vars

\* ------------------------------------------------------------- the claims
\* the finished iterations of handler t, and the one it is in
Finished(t) == {tasks[t].log[i] : i \in 1..Len(tasks[t].log)}
Iterations(t) == Finished(t) \cup {tasks[t].cur}

EventsOf(rec, name) == {k \in 1..Len(rec.events) : rec.events[k].name = name}

Suspended(c) == \E t \in TaskIds : tasks[t].pc = "getRoute" /\ tasks[t].coord = c

Alive(c) == Referenced(c, hass_data, sensors, tasks)

\* C1: a refresh of a coordinator whose destination station or city is unset
\* or empty returns None and never calls the client: no request in flight has
\* an empty destination, every _async_update_data that ran without a
\* destination made no call and returned None, and a coordinator without a
\* destination holds None as its data
C1_NoDestinationNoClientCall ==
  /\ \A t \in TaskIds :
       tasks[t].pc = "getRoute" =>
         Truthy(tasks[t].payload.dest.name) /\ Truthy(tasks[t].payload.dest.city)
  /\ \A t \in TaskIds : \A rec \in Iterations(t) :
       \A k \in EventsOf(rec, "_async_update_data") :
         ~(Truthy(rec.events[k].dest_station) /\ Truthy(rec.events[k].dest_city))
           => ~rec.events[k].client_call /\ rec.events[k].result = "None"
  /\ \A c \in CoordIds :
       (Alive(c) /\ ~Suspended(c)
          /\ ~(Truthy(coords[c].dest_station) /\ Truthy(coords[c].dest_city)))
         => coords[c].data = NoData /\ coords[c].last_update_success

\* a call with an empty city on a coordinator that held data has returned
C1_Witness ==
  \E t \in TaskIds : \E rec \in Finished(t) :
    /\ rec.outcome = "applied"
    /\ rec.sd.config.dest_station = "Altona" /\ rec.sd.config.dest_city = None
    /\ TruthyData(rec.prior)
    /\ rec.sd.refresh = "None" /\ rec.sd.data = NoData

\* C2: after set_route on a sensor's entity id, the coordinator that was
\* changed is the one the sensor reads, and the sensor's attributes show the
\* new destination
C2_SensorShowsNewDestination ==
  \A t \in TaskIds : \A rec \in Finished(t) :
    rec.outcome = "applied" =>
      /\ rec.subscribed = rec.coord
      /\ rec.shown.destination_station = tasks[t].station
      /\ rec.shown.destination_city = tasks[t].city

\* C3: when set_destination(s, c) returns, the destination is (s, c), a
\* refresh begun after the assignment has ended, and after a failed refresh
\* the data held before the call is not left in place
C3_NoStaleResultAfterSetDestination ==
  \A t \in TaskIds : \A rec \in Iterations(t) :
    rec.sd.refresh # "none" =>
      /\ rec.sd.config.dest_station = tasks[t].station
      /\ rec.sd.config.dest_city = tasks[t].city
      /\ rec.sd.refresh \in {"None", "data", "UpdateFailed"}
      /\ (rec.sd.refresh = "UpdateFailed" /\ TruthyData(rec.prior))
           => rec.sd.data # rec.prior

\* C4: while the last refresh of a coordinator has failed, the state of a
\* sensor reading it is "Error"
C4_FailedRefreshShowsError ==
  \A c \in CoordIds :
    (Alive(c) /\ ~coords[c].last_update_success) => state(coords[c]) = "Error"

\* C5: for a resolved identifier set_destination is called first, and
\* set_departure_time only after it and only if the call gave a
\* departure_time; a call without one makes exactly one refresh
C5_DepartureTimeOnlyIfSupplied ==
  \A t \in TaskIds : \A rec \in Finished(t) :
    rec.outcome = "applied" =>
      /\ rec.events[1].name = "set_destination"
      /\ \A k \in EventsOf(rec, "set_departure_time") :
           k > 1 /\ tasks[t].time # Omitted
      /\ tasks[t].time = Omitted =>
           /\ EventsOf(rec, "set_departure_time") = {}
           /\ Cardinality(EventsOf(rec, "_async_update_data")) = 1

\* C6: handle_set_route never raises, goes through the whole list, and
\* applies set_destination to every identifier that names a registered
\* entity with a stored coordinator, whatever happens to the others
C6_EveryResolvedIdentifierServed ==
  \A t \in TaskIds :
    /\ ~tasks[t].raised
    /\ tasks[t].pc = "done" => Len(tasks[t].log) = Len(tasks[t].ids)
    /\ \A i \in 1..Len(tasks[t].log) :
         /\ tasks[t].log[i].id = tasks[t].ids[i]
         /\ tasks[t].log[i].resolvable =>
              /\ tasks[t].log[i].outcome = "applied"
              /\ tasks[t].log[i].events[1].name = "set_destination"
              /\ tasks[t].log[i].sd.refresh # "none"
    /\ tasks[t].cur.resolvable =>
         tasks[t].cur.coord # 0 /\ tasks[t].cur.events[1].name = "set_destination"

\* a list whose first identifier raised in the lookup and whose second was
\* served
C6_Witness ==
  \E t \in TaskIds :
    /\ tasks[t].pc = "done" /\ Len(tasks[t].log) = 2
    /\ tasks[t].log[1].outcome \in {"error", "no_entity", "no_coordinator"}
    /\ tasks[t].log[2].outcome = "applied"

\* C7: a probe that fails to connect gives cannot_connect, one that fails to
\* authenticate gives invalid_auth, any other failure invalid_auth, and a
\* probe that succeeds gives no error
C7_ProbeFailureClassified ==
  /\ flow.probe = "NetworkError" => flow.errors = "cannot_connect"
  /\ flow.probe \in {"AuthenticationError", "TimeoutError"} => flow.errors = "invalid_auth"
  /\ flow.probe = "ok" => flow.errors = ""

\* C9: after a successful refresh with N >= 1 journeys the attributes hold
\* N routes in the client's order, route i with the line and direction of
\* the first leg of journey i
C9_OneRoutePerJourney ==
  \A c \in CoordIds :
    (/\ Alive(c) /\ coords[c].last_update_success /\ TruthyData(coords[c].data)
     /\ coords[c].data.hasSchedules /\ Len(coords[c].data.schedules) >= 1)
      => LET schedules == coords[c].data.schedules
             a == extra_state_attributes(coords[c])
         IN  /\ "routes" \in a.keys
             /\ Len(a.routes) = Len(schedules)
             /\ \A i \in 1..Len(schedules) :
                  Len(schedules[i].legs) >= 1 =>
                    /\ a.routes[i].line = schedules[i].legs[1].name
                    /\ a.routes[i].direction = schedules[i].legs[1].direction

\* C10: set_departure_time leaves the destination, the home and the
\* credentials of the coordinator as they were when it was called, while it
\* is suspended and when it returns, whether its refresh succeeds or fails
C10_SetDepartureTimeKeepsDestination ==
  \A t \in TaskIds :
    /\ \A rec \in Iterations(t) :
         rec.st.refresh # "none" => rec.st.config = rec.before
    /\ (tasks[t].pc = "getRoute" /\ tasks[t].op = "set_departure_time")
         => Config(coords[tasks[t].coord]) = tasks[t].cur.before

\* set_departure_time("08:30") has returned after a failed refresh, on a
\* coordinator with a destination
C10_Witness ==
  \E t \in TaskIds : \E rec \in Finished(t) :
    /\ rec.st.refresh = "UpdateFailed"
    /\ rec.st.departure_time = "08:30"
    /\ rec.st.config.dest_station = "Dammtor"
    /\ rec.st.config = rec.before

\* C11: when an unload of an entry completes successfully, the storage holds
\* no coordinator under that entry's id afterwards (and while the entry stays
\* unloaded), and every other entry's stored coordinator is the one it was.
C11_UnloadRemovesOnlyOwnCoordinator ==
  /\ [](\A e \in Entries : entry_state[e] = "not_loaded" => hass_data[e] = 0)
  /\ [][\A e \in Entries :
          (entry_state[e] = "loaded" /\ entry_state'[e] = "not_loaded")
            => /\ hass_data'[e] = 0
               /\ \A f \in Entries \ {e} :
                    /\ hass_data'[f] = hass_data[f]
                    /\ hass_data[f] # 0 => coords'[hass_data'[f]] = coords[hass_data[f]]]_vars

\* e1 has been set up (its sensor is registered) and unloaded, e2 is still
\* set up and stored
C11_Witness ==
  /\ "e1" \in registry /\ entry_state["e1"] = "not_loaded" /\ hass_data["e1"] = 0
  /\ entry_state["e2"] = "loaded" /\ hass_data["e2"] = StoredId("e2")
C13_OptionsEditReplacesIffValid ==
  /\ flow.options.probe = "ok" =>
       /\ flow.options.step = "created" /\ flow.options.raised = None
       /\ flow.options.data.username = flow.options.input.username
       /\ flow.options.data.password = flow.options.input.password
  /\ flow.options.probe \notin {"none", "ok"} =>
       /\ flow.options.step = "init" /\ flow.options.raised = None
       /\ flow.options.has_error /\ flow.options.data = NoEntry
\* C14: no two refreshes of one coordinator are suspended in the client call
\* at the same time.
C14_OneRefreshAtATime == \A t1, t2 \in TaskIds :
  (t1 # t2 /\ tasks[t1].pc = "getRoute" /\ tasks[t2].pc = "getRoute")
    => tasks[t1].coord # tasks[t2].coord

\* C15: whenever no refresh of a coordinator is in flight and its last
\* refresh succeeded with data, the stored data answers a query for the
\* coordinator's current destination and departure time.
C15_StoredResultMatchesCurrentFields == \A c \in CoordIds :
  (Alive(c) /\ ~Suspended(c) /\ coords[c].last_update_success /\ TruthyData(coords[c].data))
    => /\ coords[c].data.query.dest.name = coords[c].dest_station
       /\ coords[c].data.query.dest.city = coords[c].dest_city
       /\ coords[c].data.query.time.time =
            (IF coords[c].departure_time # None THEN coords[c].departure_time
             ELSE "currenttime")
\* C16: a client call that raises ends its refresh as UpdateFailed raised
\* from that exception; the refresh is then over, the coordinator records the
\* failure, the call that asked for the refresh returns normally and the
\* handler goes on without raising.
C16_ClientFailureBecomesUpdateFailed == \A t \in TaskIds :
  /\ ~tasks[t].raised
  /\ \A rec \in Iterations(t) : \A k \in EventsOf(rec, "getRoute") :
       rec.events[k].answer = "raise" =>
         /\ rec.events[k].result = "UpdateFailed"
         /\ rec.events[k].cause = rec.events[k].raised
         /\ rec.events[k].cause \in ClientExceptions
         /\ k = Len(rec.events) => tasks[t].pc # "getRoute" \/ rec \in Finished(t)
  /\ \A rec \in Iterations(t) :
       /\ rec.sd.refresh = "UpdateFailed" => ~rec.sd.last_update_success
       /\ rec.st.refresh = "UpdateFailed" => ~rec.st.last_update_success
  /\ \A rec \in Finished(t) :
       (\E k \in EventsOf(rec, "getRoute") : rec.events[k].answer = "raise")
         => rec.outcome = "applied"

\* a finished iteration whose refresh for set_destination met an unexpected
\* exception of the client and whose refresh for set_departure_time went well
C16_Witness == \E t \in TaskIds : \E rec \in Finished(t) :
  /\ rec.outcome = "applied"
  /\ \E k \in EventsOf(rec, "getRoute") :
       rec.events[k].raised = "KeyError" /\ rec.events[k].result = "UpdateFailed"
  /\ rec.sd.refresh = "UpdateFailed" /\ rec.st.refresh = "data"

\* C17: an empty response to a query ends the refresh as UpdateFailed, not
\* as data and not as None; the empty response is never stored, the data
\* held before stays and the coordinator records the failure.
C17_EmptyResponseIsFailure ==
  /\ \A c \in CoordIds : coords[c].data.kind \in {"None", "dict"}
  /\ \A t \in TaskIds : \A rec \in Iterations(t) :
       /\ \A k \in EventsOf(rec, "getRoute") :
            rec.events[k].answer = "empty" =>
              /\ rec.events[k].result = "UpdateFailed"
              /\ Truthy(rec.events[k].dest_station) /\ Truthy(rec.events[k].dest_city)
       /\ (rec.sd.refresh # "none" /\ Len(rec.events) >= 3
             /\ rec.events[3].answer = "empty") =>
            /\ rec.sd.refresh = "UpdateFailed"
            /\ ~rec.sd.last_update_success
            /\ rec.sd.data = rec.prior

\* set_destination on a coordinator that held journeys got an empty response
C17_Witness == \E t \in TaskIds : \E rec \in Finished(t) :
  /\ Len(rec.events) >= 3
  /\ rec.events[3].name = "getRoute" /\ rec.events[3].answer = "empty"
  /\ TruthyData(rec.prior) /\ rec.sd.data = rec.prior
  /\ rec.sd.refresh = "UpdateFailed"
\* C18: a sensor on a coordinator that has no refresh in flight shows
\* "No Destination Set" only if the coordinator's destination station or
\* city is unset or empty.
C18_NoDestinationSetOnlyWithoutDestination == \A c \in CoordIds :
  (Alive(c) /\ ~Suspended(c) /\ state(coords[c]) = "No Destination Set")
    => ~(Truthy(coords[c].dest_station) /\ Truthy(coords[c].dest_city))

\* C19: in every state the attributes of a sensor on a coordinator hold
\* home_station, home_city, destination_station, destination_city and
\* departure_time with the coordinator's current values.
C19_AttributesEchoConfiguration == \A c \in CoordIds :
  Alive(c) =>
    LET a == extra_state_attributes(coords[c])
    IN  /\ ConfigKeys \subseteq a.keys
        /\ a.home_station = coords[c].home_station
        /\ a.home_city = coords[c].home_city
        /\ a.destination_station = coords[c].dest_station
        /\ a.destination_city = coords[c].dest_city
        /\ a.departure_time = coords[c].departure_time
\* C20: the storage holds a coordinator under an entry's id exactly when the
\* entry's setup has completed and no unload of it has succeeded since; it is
\* the entry's own coordinator object; and at the step that stores it, it is
\* the coordinator that setup built from the entry's data, with its first
\* refresh done without failure.
C20_StorageMatchesSetUpEntries ==
  /\ [](\A e \in Entries :
          /\ hass_data[e] # 0 <=> entry_state[e] \in {"loaded", "failed_unload"}
          /\ hass_data[e] # 0 => hass_data[e] = StoredId(e))
  /\ [][\A e \in Entries :
          (hass_data[e] = 0 /\ hass_data'[e] # 0)
            => /\ entry_state'[e] = "loaded"
               /\ coords'[hass_data'[e]].last_update_success
               /\ coords'[hass_data'[e]].data = NoData
               /\ \E data \in EntryData :
                    /\ ConfigurationComplete(data)
                    /\ coords'[hass_data'[e]] =
                         HVVRoutesDataUpdateCoordinator(
                           [username |-> data.username, password |-> data.password],
                           data.home_station, data.home_city)]_vars

\* e1 has been set up and torn down, e2 is set up and its stored coordinator
\* has since had a refresh fail
C20_Witness ==
  /\ "e1" \in registry /\ entry_state["e1"] = "not_loaded" /\ hass_data["e1"] = 0
  /\ entry_state["e2"] = "loaded" /\ hass_data["e2"] = StoredId("e2")
  /\ ~coords[StoredId("e2")].last_update_success
====
